---- MODULE Spec2Model ----
(***************************************************************************)
(* TWGameEnv (src/environments/tf_game_env.py): the TF-Agents environment  *)
(* wrapped around a TextWorld game, with its command translator, its       *)
(* reward function and the two 10-slot fingerprint buffers that drive the  *)
(* loop term of the reward.                                                *)
(*                                                                         *)
(* Python str values are sequences of one-character strings, so that       *)
(* substring tests, find and slicing are computed and not assumed.         *)
(***************************************************************************)
EXTENDS Integers, Sequences, FiniteSets, TLC

VARIABLES
    envs,         \* instance name -> the fields of that TWGameEnv object
    gyms,         \* instance name -> state of the TextWorld game it holds
    hash_secret,  \* the interpreter's per-process string-hash secret
    last,         \* the last call made on an instance, and what it returned
    trace,        \* instance name -> the states handed to _update_hash_cache
    resets        \* instance name -> number of _reset calls so far

vars == <<envs, gyms, hash_secret, last, trace, resets>>

(***************************************************************************)
(* Bounds of the model.                                                    *)
(***************************************************************************)
MaxSteps == 12    \* reward-computing _step calls per instance
MaxResets == 2    \* _reset calls per instance
MazeSteps == 3    \* the same, for an instance playing the maze or tour game
QuestSteps == 3   \* the same, for an instance playing the quest game
HashMod == 61     \* number of distinct values hash() can take

(***************************************************************************)
(* Module constants of tf_game_env.py.                                     *)
(***************************************************************************)
STR_LEN == 500    \* STR_TYPE = "S500"
HASH_LIST_LENGTH == 10

REWARD_DICT ==
    [win_lose_value |-> 100,
     max_loop_pun |-> 5,
     change_reward |-> 1,
     useless_act_pun |-> 1,
     verb_in_adm |-> 1]

(***************************************************************************)
(* Python str, list and builtin operations used by the environment.        *)
(***************************************************************************)
Alphabet == <<" ", "a", "c", "d", "e", "g", "k", "n", "o", "r", "t", "y">>

\* n copies of the character c
Rep(c, n) == [i \in 1..n |-> c]

Ord(c) == CHOOSE i \in 1..Len(Alphabet) : Alphabet[i] = c

Min2(a, b) == IF a <= b THEN a ELSE b

\* min([a, b, c])
Min3(a, b, c) == Min2(a, Min2(b, c))

\* a in b, for two str
StrIn(a, b) ==
    \E i \in 0..(Len(b) - Len(a)) : SubSeq(b, i + 1, i + Len(a)) = a

\* s.find(c): the 0-based index of the first occurrence of c, -1 if none
StrFind(s, c) ==
    IF \E i \in 1..Len(s) : s[i] = c
    THEN (CHOOSE i \in 1..Len(s) :
              s[i] = c /\ \A j \in 1..(i - 1) : s[j] # c) - 1
    ELSE -1

\* s[:k]: a negative k counts from the end, and the bounds are clamped
StrSliceTo(s, k) ==
    LET stop == IF k < 0 THEN (IF Len(s) + k < 0 THEN 0 ELSE Len(s) + k)
                ELSE Min2(k, Len(s))
    IN SubSeq(s, 1, stop)

\* np.array([...]).sum() over a list of bool: the number of True entries
SumTrue(bools) == Cardinality({i \in 1..Len(bools) : bools[i]})

RECURSIVE HashBytes(_, _, _)
HashBytes(secret, s, i) ==
    IF i > Len(s) THEN secret
    ELSE (HashBytes(secret, s, i + 1) * 7 + Ord(s[i]) * (2 * secret + 3)) % HashMod

\* hash(s) for a str: 0 for the empty string whatever the secret, otherwise a
\* value fixed by the content and the process's secret (distinct strings may
\* share it)
PyHash(secret, s) == IF Len(s) = 0 THEN 0 ELSE HashBytes(secret, s, 1)

\* list[i]: i in -len..len-1 selects an entry (negative from the end),
\* anything else raises IndexError
IndexOk(list, i) == i >= -Len(list) /\ i < Len(list)

PyIndex(list, i) == IF i >= 0 THEN list[i + 1] ELSE list[Len(list) + i + 1]

(***************************************************************************)
(* Words of the vocabulary files and texts of the games.                   *)
(***************************************************************************)
w_go == <<"g", "o">>
w_take == <<"t", "a", "k", "e">>
w_empty == <<"e">>
w_key == <<"k", "e", "y">>
w_door == <<"d", "o", "o", "r">>
w_no == <<"n", "o">>
w_ok == <<"o", "k">>
t_done == <<"d", "o", "n", "e">>
t_nok == <<"n", "o", "k">>
t_go_door == <<"g", "o", " ", "d", "o", "o", "r">>
t_take_key == <<"t", "a", "k", "e", " ", "k", "e", "y">>
t_eat_egg == <<"e", "a", "t", " ", "e", "g", "g">>

(***************************************************************************)
(* TWGameEnv.__init__                                                      *)
(***************************************************************************)
\* [v + " " + o for o in list_obj], the inner loop of the comprehension
VerbRow(v, list_obj) == [j \in 1..Len(list_obj) |-> v \o <<" ">> \o list_obj[j]]

\* the comprehension with its loops exchanged:
\* [v + " " + o for o in list_obj for v in list_verb]
VerbObjList_ObjectMajor(list_verb, list_obj) ==
    [k \in 1..(Len(list_verb) * Len(list_obj)) |->
        list_verb[((k - 1) % Len(list_verb)) + 1] \o <<" ">>
            \o list_obj[((k - 1) \div Len(list_verb)) + 1]]

\* [v + " " + o for v in list_verb for o in list_obj]
RECURSIVE VerbObjList(_, _)
VerbObjList(list_verb, list_obj) ==
    IF list_verb = <<>> THEN <<>>
    ELSE VerbRow(Head(list_verb), list_obj) \o VerbObjList(Tail(list_verb), list_obj)

\* the BoundedArraySpec of the action: shape () when flattened, (2,) otherwise
ActionSpec(flatten_actspec, list_verb, list_obj) ==
    IF flatten_actspec
    THEN [minimum |-> <<0>>,
          maximum |-> <<Len(VerbObjList(list_verb, list_obj)) - 1>>]
    ELSE [minimum |-> <<0, 0>>,
          maximum |-> <<Len(list_verb) - 1, Len(list_obj) - 1>>]

\* the value of _state before the first game is started (None)
NoState == [none |-> TRUE]

\* the object as __init__ leaves it; list_verbobj is <<>> where the code has None
NewEnv(game_path, list_verb, list_obj, list_badact, flatten_actspec) ==
    [game_path |-> game_path,
     flatten_actspec |-> flatten_actspec,
     list_verb |-> list_verb,
     list_obj |-> list_obj,
     list_badact |-> list_badact,
     list_verbobj |-> IF flatten_actspec THEN VerbObjList(list_verb, list_obj)
                      ELSE <<>>,
     action_spec |-> ActionSpec(flatten_actspec, list_verb, list_obj),
     hash_dsc |-> [i \in 1..HASH_LIST_LENGTH |-> 0],
     hash_inv |-> [i \in 1..HASH_LIST_LENGTH |-> 0],
     state |-> NoState,
     episode_ended |-> FALSE]

\* the actions the action spec admits
Actions(spec) ==
    IF Len(spec.minimum) = 1
    THEN {<<i>> : i \in spec.minimum[1]..spec.maximum[1]}
    ELSE {<<i, j>> : i \in spec.minimum[1]..spec.maximum[1],
                     j \in spec.minimum[2]..spec.maximum[2]}

(***************************************************************************)
(* TWGameEnv._conv_to_cmd: [ok |-> FALSE] stands for a raised IndexError.  *)
(***************************************************************************)
IndexError == [ok |-> FALSE, cmd |-> <<>>]

\* _conv_to_cmd without the special case of object index 0
conv_to_cmd_NoEmptyObject(self, action_ind) ==
    IF self.flatten_actspec
    THEN IF IndexOk(self.list_verbobj, action_ind[1])
         THEN [ok |-> TRUE, cmd |-> PyIndex(self.list_verbobj, action_ind[1])]
         ELSE IndexError
    ELSE IF ~IndexOk(self.list_verb, action_ind[1])
                \/ ~IndexOk(self.list_obj, action_ind[2])
         THEN IndexError
         ELSE [ok |-> TRUE,
               cmd |-> PyIndex(self.list_verb, action_ind[1]) \o <<" ">>
                           \o PyIndex(self.list_obj, action_ind[2])]

conv_to_cmd(self, action_ind) ==
    IF self.flatten_actspec
    THEN IF IndexOk(self.list_verbobj, action_ind[1])
         THEN [ok |-> TRUE, cmd |-> PyIndex(self.list_verbobj, action_ind[1])]
         ELSE IndexError
    ELSE IF ~IndexOk(self.list_verb, action_ind[1]) THEN IndexError
         ELSE LET verb == PyIndex(self.list_verb, action_ind[1])
              IN IF action_ind[2] = 0
                 THEN [ok |-> TRUE, cmd |-> verb \o <<" ">> \o <<>>]
                 ELSE IF ~IndexOk(self.list_obj, action_ind[2]) THEN IndexError
                      ELSE [ok |-> TRUE,
                            cmd |-> verb \o <<" ">>
                                        \o PyIndex(self.list_obj, action_ind[2])]

(***************************************************************************)
(* The TextWorld game behind curr_TWGym.  It is not part of the            *)
(* repository: a game is a set of rooms, and a command leaves the game in  *)
(* one of the rooms the game allows next, answering with the tuple         *)
(* (obs, score, done, info) of gym's step.  Five games are played:         *)
(*   corridor  a row of rooms, one new description per room; a command     *)
(*             moves on, or (in the second room) stays; the last room wins *)
(*   hoard     the same row, one new inventory per room                    *)
(*   tour      three rooms in a row, every command moves on                *)
(*   maze      any description and inventory after any command; a command  *)
(*             may lose the game                                           *)
(*   quest     one command decides the game: any score, ending, feedback   *)
(*             and admissible commands; the game then stays as it is       *)
(***************************************************************************)
LastRoom == MaxSteps - 1

TourEnd == MazeSteps - 1

StayRooms == {1}

NoGym == [none |-> TRUE]

Out(obs, score, done, won, lost, description, inventory, adm) ==
    [obs |-> obs, score |-> score, done |-> done,
     info |-> [won |-> won, lost |-> lost, description |-> description,
               inventory |-> inventory, admissible_commands |-> adm,
               entities |-> <<w_door, w_key>>]]

RowOut(game, r) ==
    Out(w_ok, r \div 4, r = LastRoom, r = LastRoom, FALSE,
        Rep("r", IF game = "corridor" THEN r ELSE r \div 2),
        Rep("c", IF game = "corridor" THEN r \div 2 ELSE r),
        <<t_take_key>>)

TourOut(r) ==
    Out(w_ok, r, r = TourEnd, r = TourEnd, FALSE, Rep("r", r), Rep("c", r),
        <<t_go_door>>)

MazeOuts ==
    {Out(w_ok, 0, end, FALSE, end, Rep("r", d), Rep("c", i), <<t_go_door>>) :
        end \in BOOLEAN, d \in 0..1, i \in 0..1}

QuestFlags ==
    {<<FALSE, FALSE, FALSE>>, <<TRUE, FALSE, FALSE>>, <<TRUE, TRUE, FALSE>>,
     <<TRUE, FALSE, TRUE>>, <<TRUE, TRUE, TRUE>>}

QuestOuts ==
    {Out(obs, score, f[1], f[2], f[3], Rep("r", d), <<"c">>, adm) :
        obs \in {t_done, w_no, t_nok}, score \in {3, 5, 8}, f \in QuestFlags,
        d \in 0..1, adm \in {<<>>, <<t_go_door>>, <<t_take_key, t_eat_egg>>}}

\* gym.make(env_id), reset() and step("look"): a new game, in its first room
GymLook(game) ==
    [game |-> game, room |-> 0,
     out |-> CASE game \in {"corridor", "hoard"} -> RowOut(game, 0)
               [] game = "tour" -> TourOut(0)
               [] game = "maze" ->
                      Out(w_ok, 0, FALSE, FALSE, FALSE, <<>>, <<>>, <<t_go_door>>)
               [] OTHER ->
                      Out(w_ok, 5, FALSE, FALSE, FALSE, <<>>, <<"c">>, <<t_go_door>>)]

\* curr_TWGym.step(cmd): the states the game can be in after the command
GymStep(gym, cmd) ==
    CASE gym.game \in {"corridor", "hoard"} ->
             {[gym EXCEPT !.room = r, !.out = RowOut(gym.game, r)] :
                 r \in {q \in {gym.room, gym.room + 1} :
                          /\ q <= LastRoom
                          /\ q = gym.room =>
                                 (gym.room \in StayRooms \/ gym.room = LastRoom)}}
      [] gym.game = "tour" ->
             {[gym EXCEPT !.room = Min2(gym.room + 1, TourEnd),
                          !.out = TourOut(Min2(gym.room + 1, TourEnd))]}
      [] gym.game = "maze" ->
             IF gym.out.done THEN {gym}
             ELSE {[gym EXCEPT !.room = 1, !.out = o] : o \in MazeOuts}
      [] OTHER ->
             IF gym.room # 0 THEN {gym}
             ELSE {[gym EXCEPT !.room = 1, !.out = o] : o \in QuestOuts}

\* reward-computing steps the model follows an instance for
StepBudget(game) ==
    CASE game \in {"corridor", "hoard"} -> MaxSteps
      [] game \in {"maze", "tour"} -> MazeSteps
      [] OTHER -> QuestSteps

(***************************************************************************)
(* TWGameEnv._conv_to_state and _conv_pass_state                           *)
(***************************************************************************)
conv_to_state(out) ==
    [score |-> out.score,
     done |-> out.done,
     won |-> out.info.won,
     lost |-> out.info.lost,
     obs |-> out.obs,
     description |-> out.info.description,
     inventory |-> out.info.inventory,
     admissible_commands |-> out.info.admissible_commands,
     entities |-> out.info.entities]

\* np.array([...], dtype="S500"): each text cut to 500 characters
conv_pass_state(state) ==
    <<StrSliceTo(state.description, STR_LEN), StrSliceTo(state.inventory, STR_LEN)>>

(***************************************************************************)
(* TWGameEnv._update_hash_cache, _calc_cache_changes, _find_verb_in_list   *)
(***************************************************************************)
\* list.append(x) followed by list.pop(), which drops the entry just appended
AppendPop_Last(list, x) == SubSeq(Append(list, x), 1, Len(list))

\* list.append(x) followed by list.pop(0)
AppendPop(list, x) == Tail(Append(list, x))

update_hash_cache(self, secret, curr_state) ==
    [self EXCEPT
        !.hash_dsc = AppendPop(self.hash_dsc, PyHash(secret, curr_state.description)),
        !.hash_inv = AppendPop(self.hash_inv, PyHash(secret, curr_state.inventory))]

\* the count without the latest entry itself
calc_cache_changes_Others(cache) ==
    SumTrue([i \in 1..(Len(cache) - 1) |-> cache[i] = cache[Len(cache)]])

calc_cache_changes(cache) ==
    SumTrue([i \in 1..Len(cache) |-> cache[i] = cache[Len(cache)]])

\* the verb compared with whole admissible commands
find_verb_in_list_Equal(verb_str, adm_cmd) ==
    SumTrue([i \in 1..Len(adm_cmd) |-> verb_str = adm_cmd[i]]) >= 1

find_verb_in_list(verb_str, adm_cmd) ==
    LET count == SumTrue([i \in 1..Len(adm_cmd) |-> StrIn(verb_str, adm_cmd[i])])
    IN IF count >= 1 THEN TRUE ELSE FALSE

(***************************************************************************)
(* TWGameEnv._calc_reward, one operator per term, in the order of the code *)
(***************************************************************************)
\* the score difference, never below 0
reward_score_Clamped(new_state, old_state) ==
    IF new_state.score >= old_state.score
    THEN new_state.score - old_state.score
    ELSE 0

reward_score(new_state, old_state) == new_state.score - old_state.score

\* one penalty per matching bad-action string
reward_badact_PerMatch(self, new_state) ==
    -REWARD_DICT.useless_act_pun
        * SumTrue([i \in 1..Len(self.list_badact) |->
                       StrIn(self.list_badact[i], new_state.obs)])

reward_badact(self, new_state) ==
    IF SumTrue([i \in 1..Len(self.list_badact) |->
                    StrIn(self.list_badact[i], new_state.obs)]) # 0
    THEN -REWARD_DICT.useless_act_pun
    ELSE 0

\* the reward branch taken only when both channels are novel
reward_loop_BothNovel(self) ==
    LET inv_change == calc_cache_changes(self.hash_inv)
        des_change == calc_cache_changes(self.hash_dsc)
    IN IF inv_change <= 1 /\ des_change <= 1
       THEN REWARD_DICT.change_reward
       ELSE -Min3(inv_change - 1, des_change - 1, REWARD_DICT.max_loop_pun)

\* the loop penalty without its cap
reward_loop_Uncapped(self) ==
    LET inv_change == calc_cache_changes(self.hash_inv)
        des_change == calc_cache_changes(self.hash_dsc)
    IN IF inv_change <= 1 \/ des_change <= 1
       THEN REWARD_DICT.change_reward
       ELSE -Min2(inv_change - 1, des_change - 1)

reward_loop(self) ==
    LET inv_change == calc_cache_changes(self.hash_inv)
        des_change == calc_cache_changes(self.hash_dsc)
    IN IF inv_change <= 1 \/ des_change <= 1
       THEN REWARD_DICT.change_reward
       ELSE -Min3(inv_change - 1, des_change - 1, REWARD_DICT.max_loop_pun)

\* lost tested before won
reward_terminal_LostFirst(new_state) ==
    IF new_state.lost THEN -REWARD_DICT.win_lose_value
    ELSE IF new_state.won THEN REWARD_DICT.win_lose_value
    ELSE 0

reward_terminal(new_state) ==
    IF new_state.won THEN REWARD_DICT.win_lose_value
    ELSE IF new_state.lost THEN -REWARD_DICT.win_lose_value
    ELSE 0

reward_adm(new_state, cmd) ==
    LET cmd_in_adm ==
            find_verb_in_list(StrSliceTo(cmd, StrFind(cmd, " ")),
                              new_state.admissible_commands)
    IN IF cmd_in_adm THEN REWARD_DICT.verb_in_adm ELSE 0

calc_reward(self, new_state, old_state, cmd) ==
    0 + reward_score(new_state, old_state)
      + reward_badact(self, new_state)
      + reward_loop(self)
      + reward_terminal(new_state)
      + reward_adm(new_state, cmd)

(***************************************************************************)
(* Construction.  Every instance is built from the same game and           *)
(* vocabulary files; nothing has been called on any of them yet.           *)
(***************************************************************************)
NoCall ==
    [env |-> "none", op |-> "none", action |-> <<>>, cmd |-> <<>>,
     old_state |-> NoState, reward |-> 0, step_type |-> "NONE",
     discount |-> 0, observation |-> <<>>]

InitWith(names, games, verb_lists, obj_lists, badact_lists, flattens, secrets) ==
    /\ \E g \in games, lv \in verb_lists, lo \in obj_lists,
          lb \in badact_lists, f \in flattens :
           envs = [n \in names |-> NewEnv(g, lv, lo, lb, f)]
    /\ gyms = [n \in names |-> NoGym]
    /\ hash_secret \in secrets
    /\ last = NoCall
    /\ trace = [n \in names |-> <<>>]
    /\ resets = [n \in names |-> 0]

(***************************************************************************)
(* TWGameEnv._start_game and _reset                                        *)
(***************************************************************************)
\* a restart that also creates the two buffers anew
start_game_ClearCache(self) ==
    LET gym == GymLook(self.game_path)
    IN [self |-> [self EXCEPT !.episode_ended = FALSE,
                              !.state = conv_to_state(gym.out),
                              !.hash_dsc = [i \in 1..HASH_LIST_LENGTH |-> 0],
                              !.hash_inv = [i \in 1..HASH_LIST_LENGTH |-> 0]],
        gym |-> gym]

\* a restart that makes the new game but keeps the state of the old one
start_game_KeepState(self) ==
    LET gym == GymLook(self.game_path)
    IN [self |-> [self EXCEPT !.episode_ended = FALSE,
                              !.state = IF self.state = NoState
                                        THEN conv_to_state(gym.out)
                                        ELSE self.state],
        gym |-> gym]

\* the instance and its game after _reset's two statements
start_game(self) ==
    LET gym == GymLook(self.game_path)
    IN [self |-> [self EXCEPT !.episode_ended = FALSE,
                              !.state = conv_to_state(gym.out)],
        gym |-> gym]

\* ts.restart(observation)
Restart(e, op, action, observation) ==
    [env |-> e, op |-> op, action |-> action, cmd |-> <<>>,
     old_state |-> NoState, reward |-> 0, step_type |-> "FIRST",
     discount |-> 1, observation |-> observation]

reset(e) ==
    /\ resets[e] < MaxResets
    /\ LET r == start_game(envs[e])
       IN /\ envs' = [envs EXCEPT ![e] = r.self]
          /\ gyms' = [gyms EXCEPT ![e] = r.gym]
          /\ last' = Restart(e, "reset", <<>>, conv_pass_state(r.self.state))
    /\ resets' = [resets EXCEPT ![e] = @ + 1]
    /\ UNCHANGED <<hash_secret, trace>>

(***************************************************************************)
(* TWGameEnv._step                                                         *)
(***************************************************************************)
\* the flag is cleared and a restart returned, but the finished game is kept
step_ended_KeepsGame(e) ==
    /\ envs[e].episode_ended
    /\ resets[e] < MaxResets
    /\ \E action \in Actions(envs[e].action_spec) :
           /\ envs' = [envs EXCEPT ![e].episode_ended = FALSE]
           /\ last' = Restart(e, "step", action, conv_pass_state(envs[e].state))
    /\ resets' = [resets EXCEPT ![e] = @ + 1]
    /\ UNCHANGED <<gyms, hash_secret, trace>>

\* the last action ended the episode: the action is ignored and reset() runs
step_ended(e) ==
    /\ envs[e].episode_ended
    /\ resets[e] < MaxResets
    /\ \E action \in Actions(envs[e].action_spec) :
           LET r == start_game(envs[e])
           IN /\ envs' = [envs EXCEPT ![e] = r.self]
              /\ gyms' = [gyms EXCEPT ![e] = r.gym]
              /\ last' = Restart(e, "step", action, conv_pass_state(r.self.state))
    /\ resets' = [resets EXCEPT ![e] = @ + 1]
    /\ UNCHANGED <<hash_secret, trace>>

\* the flag as line 115-116 leaves it
EndedFlag(self) ==
    IF self.state.done \/ self.state.won \/ self.state.lost
    THEN TRUE
    ELSE self.episode_ended

\* lines 115-122 with the cache updated twice
StepUpdate_Twice(self, secret, out) ==
    update_hash_cache(
        update_hash_cache(
            [self EXCEPT !.episode_ended = EndedFlag(self),
                         !.state = conv_to_state(out)],
            secret, conv_to_state(out)),
        secret, conv_to_state(out))

\* lines 115-122 with the flag set from the state the command produced
StepUpdate_FlagNewState(self, secret, out) ==
    update_hash_cache(
        [self EXCEPT !.episode_ended =
                         EndedFlag([self EXCEPT !.state = conv_to_state(out)]),
                     !.state = conv_to_state(out)],
        secret, conv_to_state(out))

\* the instance after lines 115-122, given the game's answer
StepUpdate(self, secret, out) ==
    update_hash_cache(
        [self EXCEPT !.episode_ended = EndedFlag(self),
                     !.state = conv_to_state(out)],
        secret, conv_to_state(out))

\* the reward of line 129
StepReward(self_after, old_state, cmd) ==
    calc_reward(self_after, self_after.state, old_state, cmd)

\* the integers a caller can pass that the action spec does not admit: each
\* index from one below the negative range of its list to one past its end
OutsideActions(spec) ==
    LET Around(i) == (-(spec.maximum[i] + 1) - 1)..(spec.maximum[i] + 1)
    IN (IF Len(spec.minimum) = 1
        THEN {<<i>> : i \in Around(1)}
        ELSE {<<i, j>> : i \in Around(1), j \in Around(2)}) \ Actions(spec)

\* _conv_to_cmd raised: lines 115-116 have run, the exception leaves _step
StepRaised(e, action) ==
    /\ envs' = [envs EXCEPT ![e].episode_ended = EndedFlag(envs[e])]
    /\ last' = [env |-> e, op |-> "step", action |-> action, cmd |-> <<>>,
                old_state |-> envs[e].state, reward |-> 0,
                step_type |-> "RAISED", discount |-> 0, observation |-> <<>>]
    /\ UNCHANGED <<gyms, trace>>

\* lines 115-136 with the two buffers held by the class, not by the instance
step_call_SharedCache(e, action) ==
           LET old_state == envs[e].state
               c == conv_to_cmd(envs[e], action)
           IN IF ~c.ok THEN StepRaised(e, action) ELSE
              /\ \E gym \in GymStep(gyms[e], c.cmd) :
                     LET self == StepUpdate(envs[e], hash_secret, gym.out)
                         reward == StepReward(self, old_state, c.cmd)
                     IN /\ envs' = [f \in DOMAIN envs |->
                               IF f = e THEN self
                               ELSE [envs[f] EXCEPT !.hash_dsc = self.hash_dsc,
                                                    !.hash_inv = self.hash_inv]]
                        /\ gyms' = [gyms EXCEPT ![e] = gym]
                        /\ trace' = [trace EXCEPT ![e] =
                               Append(@, [description |-> self.state.description,
                                          inventory |-> self.state.inventory])]
                        /\ last' =
                               [env |-> e, op |-> "step", action |-> action,
                                cmd |-> c.cmd, old_state |-> old_state,
                                reward |-> reward,
                                step_type |-> IF self.episode_ended THEN "LAST"
                                              ELSE "MID",
                                discount |-> IF self.episode_ended THEN 0 ELSE 1,
                                observation |-> conv_pass_state(self.state)]

\* lines 115-136 for one action
step_call(e, action) ==
           LET old_state == envs[e].state
               c == conv_to_cmd(envs[e], action)
           IN IF ~c.ok THEN StepRaised(e, action) ELSE
              /\ \E gym \in GymStep(gyms[e], c.cmd) :
                     LET self == StepUpdate(envs[e], hash_secret, gym.out)
                         reward == StepReward(self, old_state, c.cmd)
                     IN /\ envs' = [envs EXCEPT ![e] = self]
                        /\ gyms' = [gyms EXCEPT ![e] = gym]
                        /\ trace' = [trace EXCEPT ![e] =
                               Append(@, [description |-> self.state.description,
                                          inventory |-> self.state.inventory])]
                        /\ last' =
                               [env |-> e, op |-> "step", action |-> action,
                                cmd |-> c.cmd, old_state |-> old_state,
                                reward |-> reward,
                                step_type |-> IF self.episode_ended THEN "LAST"
                                              ELSE "MID",
                                discount |-> IF self.episode_ended THEN 0 ELSE 1,
                                observation |-> conv_pass_state(self.state)]

\* _step with an action of the action spec
step_run(e) ==
    /\ envs[e].state # NoState
    /\ ~envs[e].episode_ended
    /\ Len(trace[e]) < StepBudget(envs[e].game_path)
    /\ \E action \in Actions(envs[e].action_spec) : step_call(e, action)
    /\ UNCHANGED <<hash_secret, resets>>

\* _step with integers the action spec does not admit
step_outside(e) ==
    /\ envs[e].state # NoState
    /\ ~envs[e].episode_ended
    /\ Len(trace[e]) < StepBudget(envs[e].game_path)
    /\ \E action \in OutsideActions(envs[e].action_spec) : step_call(e, action)
    /\ UNCHANGED <<hash_secret, resets>>

Reset == \E e \in DOMAIN envs : reset(e)

StepEnded == \E e \in DOMAIN envs : step_ended(e)

StepRun == \E e \in DOMAIN envs : step_run(e)

Next == Reset \/ StepEnded \/ StepRun

StepOutside == \E e \in DOMAIN envs : step_outside(e)

\* the calls of a driver that does not keep to the action spec
NextOpen == Reset \/ StepEnded \/ StepRun \/ StepOutside

(***************************************************************************)
(* Specifications: one instance, as create_environments(onlytrain=True)    *)
(* builds it, playing different games with different vocabulary files.     *)
(***************************************************************************)
Secrets == {1, 4}

Init ==
    InitWith({"train"}, {"maze"}, {<<w_go, w_take>>}, {<<w_empty, w_key>>},
             {<<w_no>>}, {FALSE}, Secrets)

Spec == Init /\ [][Next]_vars

InitRow ==
    InitWith({"train"}, {"corridor", "hoard"}, {<<w_go>>}, {<<w_empty>>},
             {<<w_no>>}, {TRUE}, Secrets)

SpecRow == InitRow /\ [][Next]_vars

InitQuest ==
    InitWith({"train"}, {"quest"}, {<<w_go, w_take>>}, {<<w_empty, w_key>>},
             {<<>>, <<w_no>>, <<w_no, w_ok>>}, {FALSE}, {1})

SpecQuest == InitQuest /\ [][Next]_vars

InitCmd ==
    InitWith({"train"}, {"tour"}, {<<w_go, w_take>>},
             {<<w_empty, w_key, w_door>>, <<<<>>, w_key>>, <<w_key, w_key>>},
             {<<w_no>>}, BOOLEAN, {1})

SpecCmd == InitCmd /\ [][Next]_vars

SpecOpen == InitCmd /\ [][NextOpen]_vars

\* the train and the eval instance of create_environments(), built from the
\* same game and vocabulary files, flattened as its default asks
InitTwo ==
    InitWith({"train", "eval"}, {"tour"}, {<<w_go>>}, {<<w_empty, w_key>>},
             {<<w_no>>}, {TRUE}, {1})

SpecTwo == InitTwo /\ [][Next]_vars

(***************************************************************************)
(* Vocabulary of the properties.                                           *)
(***************************************************************************)
\* the last call was a _step on e that computed a reward
Computed(e) ==
    last.env = e /\ last.op = "step" /\ last.step_type \in {"MID", "LAST"}

\* number of entries of a buffer equal to its last entry
RepeatCount(buf) == Cardinality({i \in DOMAIN buf : buf[i] = buf[Len(buf)]})

\* number of entries of a buffer equal to x
Occurrences(buf, x) == Cardinality({i \in DOMAIN buf : buf[i] = x})

\* the command's verb token: what precedes its first space
VerbToken(cmd) ==
    SubSeq(cmd, 1, (CHOOSE i \in 1..Len(cmd) :
                        cmd[i] = " " /\ \A j \in 1..(i - 1) : cmd[j] # " ") - 1)

BadActionMatch(e) ==
    \E i \in DOMAIN envs[e].list_badact :
        StrIn(envs[e].list_badact[i], envs[e].state.obs)

VerbAdmissible(e) ==
    \E i \in DOMAIN envs[e].state.admissible_commands :
        StrIn(VerbToken(last.cmd), envs[e].state.admissible_commands[i])

ScoreDelta(e) == envs[e].state.score - last.old_state.score

\* the terms of the last reward, each as what is left of the reward once the
\* other four terms are taken out
LoopTerm(e) ==
    last.reward - reward_score(envs[e].state, last.old_state)
                - reward_badact(envs[e], envs[e].state)
                - reward_terminal(envs[e].state)
                - reward_adm(envs[e].state, last.cmd)

BadActTerm(e) ==
    last.reward - reward_score(envs[e].state, last.old_state)
                - reward_loop(envs[e])
                - reward_terminal(envs[e].state)
                - reward_adm(envs[e].state, last.cmd)

TerminalTerm(e) ==
    last.reward - reward_score(envs[e].state, last.old_state)
                - reward_badact(envs[e], envs[e].state)
                - reward_loop(envs[e])
                - reward_adm(envs[e].state, last.cmd)

AdmTerm(e) ==
    last.reward - reward_score(envs[e].state, last.old_state)
                - reward_badact(envs[e], envs[e].state)
                - reward_loop(envs[e])
                - reward_terminal(envs[e].state)

\* a step with no bad-action match, a novel description or inventory
\* fingerprint and a verb that is in no admissible command
Neutral(e) ==
    /\ Computed(e)
    /\ ~BadActionMatch(e)
    /\ (RepeatCount(envs[e].hash_inv) <= 1 \/ RepeatCount(envs[e].hash_dsc) <= 1)
    /\ ~VerbAdmissible(e)

\* number of turns at the end of a trace that produced the texts of its last turn
RECURSIVE Streak(_)
Streak(tr) ==
    IF Len(tr) <= 1 THEN Len(tr)
    ELSE IF tr[Len(tr) - 1] = tr[Len(tr)]
         THEN 1 + Streak(SubSeq(tr, 1, Len(tr) - 1))
         ELSE 1

\* the fingerprints of a trace's descriptions and inventories, oldest first
DscPrints(tr) == [i \in DOMAIN tr |-> PyHash(hash_secret, tr[i].description)]

InvPrints(tr) == [i \in DOMAIN tr |-> PyHash(hash_secret, tr[i].inventory)]

\* the last n entries of a sequence
LastN(seq, n) == SubSeq(seq, Len(seq) - n + 1, Len(seq))

Sentinels == [i \in 1..HASH_LIST_LENGTH |-> 0]

Distinct(seq) == \A i, j \in DOMAIN seq : i # j => seq[i] # seq[j]

(***************************************************************************)
(* C1: in every step that computes a reward, the loop term is decided on   *)
(* the buffers as updated with the new state's fingerprints: both repeat   *)
(* counts are at least 1, the term is +change_reward when one of them is   *)
(* at most 1, and otherwise minus the smallest of the two counts less one  *)
(* and max_loop_pun.                                                       *)
(***************************************************************************)
C1_LoopTermOnUpdatedCache ==
    \A e \in DOMAIN envs :
        Computed(e) =>
            LET invRepeatCount == RepeatCount(envs[e].hash_inv)
                descRepeatCount == RepeatCount(envs[e].hash_dsc)
            IN /\ invRepeatCount >= 1
               /\ descRepeatCount >= 1
               /\ envs[e].hash_dsc[HASH_LIST_LENGTH] =
                      PyHash(hash_secret, envs[e].state.description)
               /\ envs[e].hash_inv[HASH_LIST_LENGTH] =
                      PyHash(hash_secret, envs[e].state.inventory)
               /\ LoopTerm(e) =
                      IF invRepeatCount <= 1 \/ descRepeatCount <= 1
                      THEN REWARD_DICT.change_reward
                      ELSE -Min3(invRepeatCount - 1, descRepeatCount - 1,
                                 REWARD_DICT.max_loop_pun)

\* a step whose inventory is novel and whose description is a repetition
C1_Witness ==
    \E e \in DOMAIN envs :
        /\ Computed(e)
        /\ RepeatCount(envs[e].hash_inv) = 1
        /\ RepeatCount(envs[e].hash_dsc) > 1
        /\ LoopTerm(e) = REWARD_DICT.change_reward

(***************************************************************************)
(* C2: when the same description and the same inventory are produced on k  *)
(* consecutive turns, their fingerprints in the cache only through these   *)
(* turns, and the k-th turn has no score, bad-action, terminal or          *)
(* admissibility effect, the reward of the k-th turn is +change_reward for *)
(* k = 1 and -min(k - 1, max_loop_pun) for k >= 2; at k = 3 both repeat    *)
(* counts are 3 and the reward is -2.                                      *)
(***************************************************************************)
C2_Case(e, k) ==
    /\ Computed(e)
    /\ k = Streak(trace[e])
    /\ Occurrences(envs[e].hash_dsc,
                   PyHash(hash_secret, envs[e].state.description))
           = Min2(k, HASH_LIST_LENGTH)
    /\ Occurrences(envs[e].hash_inv,
                   PyHash(hash_secret, envs[e].state.inventory))
           = Min2(k, HASH_LIST_LENGTH)
    /\ ScoreDelta(e) = 0
    /\ ~BadActionMatch(e)
    /\ ~envs[e].state.won /\ ~envs[e].state.lost
    /\ ~VerbAdmissible(e)

C2_RepeatedTurns ==
    \A e \in DOMAIN envs : \A k \in 1..(MaxSteps + 1) :
        C2_Case(e, k) =>
            /\ k = 1 => last.reward = REWARD_DICT.change_reward
            /\ k >= 2 => last.reward = -Min2(k - 1, REWARD_DICT.max_loop_pun)
            /\ k = 3 => /\ RepeatCount(envs[e].hash_dsc) = 3
                        /\ RepeatCount(envs[e].hash_inv) = 3
                        /\ last.reward = -2

\* the third of three such turns, paid -2
C2_Witness ==
    \E e \in DOMAIN envs : C2_Case(e, 3) /\ last.reward = -2

(***************************************************************************)
(* C3: both buffers are FIFO rings of 10 entries: at any time each holds   *)
(* the last 10 of the 10 sentinels followed by every fingerprint appended  *)
(* so far, in order; so once 11 pairwise distinct fingerprints have been   *)
(* appended, the first of them is no longer in the buffer.                 *)
(***************************************************************************)
C3_Ring(buf, prints) ==
    /\ Len(buf) = HASH_LIST_LENGTH
    /\ buf = LastN(Sentinels \o prints, HASH_LIST_LENGTH)
    /\ (Len(prints) >= HASH_LIST_LENGTH + 1
            /\ Distinct(LastN(prints, HASH_LIST_LENGTH + 1))) =>
           /\ Occurrences(buf, prints[Len(prints) - HASH_LIST_LENGTH]) = 0
           /\ buf = LastN(prints, HASH_LIST_LENGTH)

C3_StrictRing ==
    \A e \in DOMAIN envs :
        /\ C3_Ring(envs[e].hash_dsc, DscPrints(trace[e]))
        /\ C3_Ring(envs[e].hash_inv, InvPrints(trace[e]))

\* 11 descriptions with pairwise distinct fingerprints have been appended
C3_Witness ==
    \E e \in DOMAIN envs :
        /\ Len(trace[e]) = HASH_LIST_LENGTH + 1
        /\ Distinct(DscPrints(trace[e]))
        /\ Occurrences(envs[e].hash_dsc, DscPrints(trace[e])[1]) = 0

(***************************************************************************)
(* C4: a sentinel slot is never counted as a repetition of a text: on the  *)
(* first turn after construction both repeat counts are 1 and the loop     *)
(* term of the reward is +change_reward.                                   *)
(***************************************************************************)
C4_SentinelDistinguishable ==
    \A e \in DOMAIN envs :
        (Computed(e) /\ Len(trace[e]) = 1) =>
            /\ RepeatCount(envs[e].hash_dsc) = 1
            /\ RepeatCount(envs[e].hash_inv) = 1
            /\ LoopTerm(e) = REWARD_DICT.change_reward

(***************************************************************************)
(* C5: for a step with no bad-action match, a novel description or         *)
(* inventory fingerprint, won = lost = false and a verb in no admissible   *)
(* command, the reward is the signed score difference plus change_reward   *)
(* (5 -> 8 gives 4), also when the score goes down.                        *)
(***************************************************************************)
C5_ScoreDelta ==
    \A e \in DOMAIN envs :
        (Neutral(e) /\ ~envs[e].state.won /\ ~envs[e].state.lost) =>
            last.reward = ScoreDelta(e) + REWARD_DICT.change_reward

\* the neutral step from score 5 to score 8, paid 4
C5_Witness ==
    \E e \in DOMAIN envs :
        /\ Neutral(e) /\ ~envs[e].state.won /\ ~envs[e].state.lost
        /\ last.old_state.score = 5 /\ envs[e].state.score = 8
        /\ last.reward = 4

(***************************************************************************)
(* C6: the terminal term is +win_lose_value when the new state is won      *)
(* (lost or not), -win_lose_value when it is lost and not won, and 0 when  *)
(* it is neither (done or not); it comes on top of the other terms, so the *)
(* neutral step from 5 to 8 that wins is paid 104.                         *)
(***************************************************************************)
C6_TerminalTerm ==
    \A e \in DOMAIN envs :
        Computed(e) =>
            /\ envs[e].state.won => TerminalTerm(e) = REWARD_DICT.win_lose_value
            /\ (~envs[e].state.won /\ envs[e].state.lost) =>
                   TerminalTerm(e) = -REWARD_DICT.win_lose_value
            /\ (~envs[e].state.won /\ ~envs[e].state.lost) => TerminalTerm(e) = 0
            /\ (Neutral(e) /\ envs[e].state.won
                    /\ last.old_state.score = 5 /\ envs[e].state.score = 8) =>
                   last.reward = 104

\* the neutral step from 5 to 8 into a state both won and lost, paid 104
C6_Witness ==
    \E e \in DOMAIN envs :
        /\ Neutral(e) /\ envs[e].state.won /\ envs[e].state.lost
        /\ last.old_state.score = 5 /\ envs[e].state.score = 8
        /\ last.reward = 104

(***************************************************************************)
(* C7: the bad-action penalty is useless_act_pun when at least one string  *)
(* of the bad-action list is a substring of the new observation text, the  *)
(* same for one match and for several, and 0 when none is, the empty list  *)
(* included.                                                               *)
(***************************************************************************)
C7_BadActionOnce ==
    \A e \in DOMAIN envs :
        Computed(e) =>
            BadActTerm(e) = IF BadActionMatch(e)
                            THEN -REWARD_DICT.useless_act_pun
                            ELSE 0

\* two bad-action strings match the observation and the penalty is paid once
C7_Witness ==
    \E e \in DOMAIN envs :
        /\ Computed(e)
        /\ Cardinality({i \in DOMAIN envs[e].list_badact :
               StrIn(envs[e].list_badact[i], envs[e].state.obs)}) = 2
        /\ BadActTerm(e) = -REWARD_DICT.useless_act_pun

(***************************************************************************)
(* C8: every issued command holds a space, and verb_in_adm is added, once, *)
(* exactly when the substring before the command's first space is a        *)
(* substring of at least one admissible command of the new state; it is    *)
(* not added when there is no admissible command.                          *)
(***************************************************************************)
C8_AdmissibleVerb ==
    \A e \in DOMAIN envs :
        Computed(e) =>
            /\ \E i \in DOMAIN last.cmd : last.cmd[i] = " "
            /\ AdmTerm(e) = IF VerbAdmissible(e)
                            THEN REWARD_DICT.verb_in_adm
                            ELSE 0
            /\ envs[e].state.admissible_commands = <<>> => AdmTerm(e) = 0

\* the verb is part of an admissible command that goes on after it
C8_Witness ==
    \E e \in DOMAIN envs :
        /\ Computed(e)
        /\ VerbAdmissible(e)
        /\ \A i \in DOMAIN envs[e].state.admissible_commands :
               envs[e].state.admissible_commands[i] # VerbToken(last.cmd)
        /\ AdmTerm(e) = REWARD_DICT.verb_in_adm

(***************************************************************************)
(* C9: in flattened mode the action spec runs from 0 to |verbs|*|objects|  *)
(* - 1, index i is translated to verbs[i // |objects|] + " " +             *)
(* objects[i % |objects|], and each (verb, object) pair is the image of    *)
(* exactly one index.                                                      *)
(***************************************************************************)
C9_Expected(self, i) ==
    self.list_verb[(i \div Len(self.list_obj)) + 1] \o <<" ">>
        \o self.list_obj[(i % Len(self.list_obj)) + 1]

C10_Claimed(self, action_ind) ==
    IF action_ind[2] # 0
    THEN self.list_verb[action_ind[1] + 1] \o <<" ">>
             \o self.list_obj[action_ind[2] + 1]
    ELSE self.list_verb[action_ind[1] + 1]

C10_JustTheVerb ==
    \A e \in DOMAIN envs :
        (Computed(e) /\ ~envs[e].flatten_actspec) =>
            last.cmd = C10_Claimed(envs[e], last.action)

(***************************************************************************)
(* C10 as amended: (verbIdx, 0) gives verbs[verbIdx] followed by one       *)
(* space and nothing else, whatever objects[0] holds; the other pairs give *)
(* verbs[verbIdx] + " " + objects[objIdx].                                 *)
(***************************************************************************)
C10_Amended(self, action_ind) ==
    IF action_ind[2] # 0
    THEN self.list_verb[action_ind[1] + 1] \o <<" ">>
             \o self.list_obj[action_ind[2] + 1]
    ELSE self.list_verb[action_ind[1] + 1] \o <<" ">>

C10_VerbAndSpace ==
    \A e \in DOMAIN envs :
        ~envs[e].flatten_actspec =>
            /\ \A a \in Actions(envs[e].action_spec) :
                   conv_to_cmd(envs[e], a) =
                       [ok |-> TRUE, cmd |-> C10_Amended(envs[e], a)]
            /\ Computed(e) => last.cmd = C10_Amended(envs[e], last.action)

\* a step with object index 0 where objects[0] is a word
C10_Witness ==
    \E e \in DOMAIN envs :
        /\ Computed(e)
        /\ ~envs[e].flatten_actspec
        /\ last.action[2] = 0
        /\ envs[e].list_obj[1] # <<>>
        /\ last.cmd = envs[e].list_verb[last.action[1] + 1] \o <<" ">>

(***************************************************************************)
(* C11: for every action index outside the vocabulary bounds (flattened:   *)
(* below 0 or at or above |verbs|*|objects|; unflattened: a verb or object *)
(* index below 0 or at or above the length of its list) the translator     *)
(* fails with an out-of-range error and produces no command; such an index *)
(* is never mapped onto a vocabulary entry.                                *)
(***************************************************************************)
OutOfBounds(self, action_ind) ==
    IF self.flatten_actspec
    THEN \/ action_ind[1] < 0
         \/ action_ind[1] >= Len(self.list_verb) * Len(self.list_obj)
    ELSE \/ action_ind[1] < 0 \/ action_ind[1] >= Len(self.list_verb)
         \/ action_ind[2] < 0 \/ action_ind[2] >= Len(self.list_obj)

\* the last call was a _step on e that reached the translator
Translated(e) == last.env = e /\ last.op = "step" /\ last.step_type # "FIRST"

C11_OutOfRangeFails ==
    \A e \in DOMAIN envs :
        (Translated(e) /\ OutOfBounds(envs[e], last.action)) =>
            /\ last.step_type = "RAISED"
            /\ last.cmd = <<>>
            /\ conv_to_cmd(envs[e], last.action) = IndexError

(***************************************************************************)
(* Calls as transitions: every _reset and every _step that restarts adds   *)
(* to resets, every _step that reaches the engine adds to trace.           *)
(***************************************************************************)
\* this transition is a _step call on e
StepCall(e) ==
    /\ last'.op = "step" /\ last'.env = e
    /\ (trace'[e] # trace[e] \/ resets'[e] # resets[e])

\* this transition is a _reset call on e
ResetCall(e) == last'.op = "reset" /\ last'.env = e /\ resets'[e] # resets[e]

\* in this transition the engine of e executed the issued command, the cache
\* was updated once with its answer, and the reward was computed on both
RewardedOnce(e) ==
    /\ conv_to_cmd(envs[e], last'.action) = [ok |-> TRUE, cmd |-> last'.cmd]
    /\ gyms'[e] \in GymStep(gyms[e], last'.cmd)
    /\ envs'[e].state = conv_to_state(gyms'[e].out)
    /\ Len(trace'[e]) = Len(trace[e]) + 1
    /\ envs'[e].hash_dsc =
           Tail(envs[e].hash_dsc)
               \o <<PyHash(hash_secret, envs'[e].state.description)>>
    /\ envs'[e].hash_inv =
           Tail(envs[e].hash_inv)
               \o <<PyHash(hash_secret, envs'[e].state.inventory)>>
    /\ last'.step_type \in {"MID", "LAST"}
    /\ last'.old_state = envs[e].state
    /\ last'.reward =
           calc_reward(envs'[e], envs'[e].state, envs[e].state, last'.cmd)

(***************************************************************************)
(* C12 as claimed: every _step call computes one reward for its own        *)
(* action, after the engine has executed the command.                      *)
(***************************************************************************)
C12_EveryStepRewarded ==
    \A e \in DOMAIN envs :
        (last.op = "step" /\ last.env = e) =>
            /\ last.step_type \in {"MID", "LAST"}
            /\ last.cmd # <<>>

(***************************************************************************)
(* C12 as amended: every _step call on an instance whose episode is not    *)
(* flagged as ended computes exactly one reward, after the engine has      *)
(* executed the issued command and after the cache has been updated        *)
(* exactly once with the new state.                                        *)
(***************************************************************************)
C12_OneRewardAfterEngine ==
    [][\A e \in DOMAIN envs :
           (StepCall(e) /\ ~envs[e].episode_ended) => RewardedOnce(e)]_vars

\* a second rewarded step of an episode
C12_Witness ==
    \E e \in DOMAIN envs :
        /\ Computed(e)
        /\ Len(trace[e]) >= 2
        /\ last.old_state.description # envs[e].state.description

(***************************************************************************)
(* C13: the cache is created with the instance and a restart (a _reset, or *)
(* the _step that follows a termination) leaves both buffers as they are:  *)
(* the fingerprints appended before it are still there and the "look"      *)
(* state of the new game is not appended, so the repeat counts of a new    *)
(* episode's first turns count fingerprints of the previous episode.       *)
(***************************************************************************)
\* this transition restarts the game of e
Restarted(e) == resets'[e] # resets[e]

C13_CacheSurvivesReset ==
    [][\A e \in DOMAIN envs :
           Restarted(e) =>
               /\ envs'[e].hash_dsc = envs[e].hash_dsc
               /\ envs'[e].hash_inv = envs[e].hash_inv
               /\ trace'[e] = trace[e]
               /\ envs'[e].state = conv_to_state(GymLook(envs[e].game_path).out)
               /\ Len(trace[e]) > 0 =>
                      /\ envs'[e].hash_dsc[HASH_LIST_LENGTH] =
                             PyHash(hash_secret, trace[e][Len(trace[e])].description)
                      /\ envs'[e].hash_inv[HASH_LIST_LENGTH] =
                             PyHash(hash_secret, trace[e][Len(trace[e])].inventory)]_vars

\* the first turn of a second episode of the tour repeats the first turn of
\* the first episode and pays the loop penalty for it
C13_Witness ==
    \E e \in DOMAIN envs :
        /\ Computed(e)
        /\ envs[e].game_path = "tour"
        /\ resets[e] = 2
        /\ Len(trace[e]) = 2
        /\ gyms[e].room = 1
        /\ RepeatCount(envs[e].hash_dsc) = 2
        /\ RepeatCount(envs[e].hash_inv) = 2
        /\ LoopTerm(e) = -1

(***************************************************************************)
(* C14: with two instances, a step or a reset on one of them leaves the    *)
(* other one's buffers, game state and episode-ended flag (and its game)   *)
(* as they were, under every interleaving; and the reward of a step is the *)
(* one computed from the stepping instance's own history alone: its own    *)
(* previous state, and buffers holding only its own fingerprints.          *)
(***************************************************************************)
\* the buffers an instance has when only its own states were appended
OwnCache(self, tr) ==
    [self EXCEPT !.hash_dsc = LastN(Sentinels \o DscPrints(tr), HASH_LIST_LENGTH),
                 !.hash_inv = LastN(Sentinels \o InvPrints(tr), HASH_LIST_LENGTH)]

C14_InstancesIndependent ==
    [][\A e \in DOMAIN envs :
           last'.env = e =>
               /\ \A f \in DOMAIN envs \ {e} :
                      /\ envs'[f] = envs[f]
                      /\ gyms'[f] = gyms[f]
                      /\ trace'[f] = trace[f]
                      /\ resets'[f] = resets[f]
               /\ last'.step_type \in {"MID", "LAST"} =>
                      /\ last'.old_state = envs[e].state
                      /\ last'.reward =
                             calc_reward(OwnCache(envs'[e], trace'[e]),
                                         envs'[e].state, envs[e].state,
                                         last'.cmd)]_vars

\* one instance has just reached the room the other one is in, which the
\* other one's cache holds already, and is paid for a new state
C14_Witness ==
    \E e \in DOMAIN envs : \E f \in DOMAIN envs \ {e} :
        /\ Computed(e)
        /\ Len(trace[f]) >= 1
        /\ trace[f][Len(trace[f])] = trace[e][Len(trace[e])]
        /\ envs[f].hash_dsc[HASH_LIST_LENGTH] = envs[e].hash_dsc[HASH_LIST_LENGTH]
        /\ RepeatCount(envs[e].hash_dsc) = 1
        /\ LoopTerm(e) = REWARD_DICT.change_reward
        /\ ~envs[e].episode_ended
        /\ envs[f].episode_ended

(***************************************************************************)
(* C15: after a step that returned a termination time step, the next step  *)
(* call on the instance ignores its action: no command reaches the game,   *)
(* no reward is computed, the cache stays as it is, the episode-ended flag *)
(* is cleared, a new game is started and the restart time step carries the *)
(* new game's initial "look" state.                                        *)
(***************************************************************************)
\* the last call on e returned a termination time step
Terminated(e) == last.env = e /\ last.op = "step" /\ last.step_type = "LAST"

C15_StepAfterEndRestarts ==
    [][\A e \in DOMAIN envs :
           (Terminated(e) /\ last'.env = e /\ last'.op = "step") =>
               LET look == GymLook(envs[e].game_path)
               IN /\ last'.step_type = "FIRST"
                  /\ last'.cmd = <<>>
                  /\ last'.reward = 0
                  /\ last'.observation = conv_pass_state(conv_to_state(look.out))
                  /\ trace'[e] = trace[e]
                  /\ envs'[e].hash_dsc = envs[e].hash_dsc
                  /\ envs'[e].hash_inv = envs[e].hash_inv
                  /\ envs[e].episode_ended /\ ~envs'[e].episode_ended
                  /\ gyms'[e] = look
                  /\ envs'[e].state = conv_to_state(look.out)]_vars

\* a step call has just restarted a maze that was lost
C15_Witness ==
    \E e \in DOMAIN envs :
        /\ last.env = e /\ last.op = "step" /\ last.step_type = "FIRST"
        /\ last.action \in Actions(envs[e].action_spec)
        /\ Len(trace[e]) >= 2
        /\ trace[e][Len(trace[e])] # [description |-> <<>>, inventory |-> <<>>]
        /\ envs[e].state = conv_to_state(GymLook(envs[e].game_path).out)
        /\ ~envs[e].episode_ended
        /\ envs[e].hash_dsc[HASH_LIST_LENGTH] # 0

(***************************************************************************)
(* C16: whenever the loop-penalty branch is taken (both repeat counts are  *)
(* greater than 1) the amount subtracted is at least 1 and at most         *)
(* max_loop_pun, and the uncapped value, the smaller repeat count less     *)
(* one, is at most 9 because a buffer holds 10 entries.                    *)
(***************************************************************************)
\* the smaller of the two repeat counts, less one
Uncapped(e) ==
    Min2(RepeatCount(envs[e].hash_inv) - 1, RepeatCount(envs[e].hash_dsc) - 1)

PenaltyBranch(e) ==
    /\ Computed(e)
    /\ RepeatCount(envs[e].hash_inv) > 1
    /\ RepeatCount(envs[e].hash_dsc) > 1

C16_PenaltyBounds ==
    \A e \in DOMAIN envs :
        PenaltyBranch(e) =>
            /\ -LoopTerm(e) >= 1
            /\ -LoopTerm(e) <= REWARD_DICT.max_loop_pun
            /\ Uncapped(e) >= 1
            /\ Uncapped(e) <= HASH_LIST_LENGTH - 1
            /\ Len(envs[e].hash_dsc) = HASH_LIST_LENGTH
            /\ Len(envs[e].hash_inv) = HASH_LIST_LENGTH

\* both buffers are full of one fingerprint and the cap is what is paid
C16_Witness ==
    \E e \in DOMAIN envs :
        /\ PenaltyBranch(e)
        /\ Uncapped(e) = HASH_LIST_LENGTH - 1
        /\ -LoopTerm(e) = REWARD_DICT.max_loop_pun
        /\ envs[e].hash_dsc[1] # 0

(***************************************************************************)
(* C17: a step call on an instance not flagged as ended returns a          *)
(* termination time step exactly when the game state held before the call  *)
(* was already done, won or lost.  The step whose command first makes the  *)
(* game done, won or lost returns an ordinary transition with discount 1.0 *)
(* whose reward carries the win/lose term; the next step sends one more    *)
(* command to the finished game, updates the cache and computes a reward   *)
(* once more, and only then is the termination time step returned.         *)
(***************************************************************************)
Finished(state) == state.done \/ state.won \/ state.lost

C17_TerminationOneStepLate ==
    [][\A e \in DOMAIN envs :
           (StepCall(e) /\ ~envs[e].episode_ended) =>
               /\ last'.step_type = "LAST" <=> Finished(envs[e].state)
               /\ ~Finished(envs[e].state) =>
                      /\ last'.step_type = "MID"
                      /\ last'.discount = 1
                      /\ ~envs'[e].episode_ended
                      /\ TerminalTerm(e)' =
                             IF envs'[e].state.won
                             THEN REWARD_DICT.win_lose_value
                             ELSE IF envs'[e].state.lost
                                  THEN -REWARD_DICT.win_lose_value
                                  ELSE 0
               /\ Finished(envs[e].state) =>
                      /\ envs'[e].episode_ended
                      /\ last'.discount = 0
                      /\ RewardedOnce(e)]_vars

\* the quest was won by one command, a second command was sent to the won
\* game, and the step of the second command is the one that terminates
C17_Witness ==
    \E e \in DOMAIN envs :
        /\ Computed(e)
        /\ last.step_type = "LAST"
        /\ last.cmd # <<>>
        /\ Len(trace[e]) = 2
        /\ last.old_state.won
        /\ envs[e].state.won
        /\ TerminalTerm(e) = REWARD_DICT.win_lose_value
        /\ envs[e].episode_ended

(***************************************************************************)
(* C18: in every step that computes a reward, the old state of the score   *)
(* delta is the state the immediately preceding engine call of the same    *)
(* game returned: the new state of the previous step, or the "look" state  *)
(* of the restart for the first step of an episode.  The new state comes   *)
(* from a command to that same game, so no score delta is taken between    *)
(* the states of two episodes.                                             *)
(***************************************************************************)
\* no command has been sent to the game of e since it was started
FreshGame(e) == gyms[e].room = 0

C18_ScoreDeltaWithinEpisode ==
    [][\A e \in DOMAIN envs :
           (StepCall(e) /\ last'.step_type \in {"MID", "LAST"}) =>
               /\ resets'[e] = resets[e]
               /\ last'.old_state = conv_to_state(gyms[e].out)
               /\ gyms'[e] \in GymStep(gyms[e], last'.cmd)
               /\ envs'[e].state = conv_to_state(gyms'[e].out)
               /\ ScoreDelta(e)' = gyms'[e].out.score - gyms[e].out.score
               /\ FreshGame(e) =>
                      last'.old_state =
                          conv_to_state(GymLook(envs[e].game_path).out)
               /\ ~FreshGame(e) =>
                      /\ last'.old_state.description =
                             trace[e][Len(trace[e])].description
                      /\ last'.old_state.inventory =
                             trace[e][Len(trace[e])].inventory]_vars

\* the first step of a second tour, after a first tour that reached a higher
\* score: the delta is taken from the new tour's "look" state
C18_Witness ==
    \E e \in DOMAIN envs :
        /\ Computed(e)
        /\ envs[e].game_path = "tour"
        /\ resets[e] = 2
        /\ Len(trace[e]) = 3
        /\ trace[e][2].description = Rep("r", 2)
        /\ gyms[e].room = 1
        /\ last.old_state = conv_to_state(GymLook("tour").out)
        /\ ScoreDelta(e) = 1

====
